---- MODULE Spec2Model ----
(***************************************************************************)
(* read-later-podcast: the script generator (src/lib/script-gen.js).       *)
(*                                                                         *)
(* Texts are strings; a character is a string of length one, read with     *)
(* Ch(s, i).  A transcript is the sequence of its lines, which is what     *)
(* rawScript.split('\n') hands to the parser's loop.                       *)
(***************************************************************************)
EXTENDS Integers, Sequences, FiniteSets, TLC

VARIABLES
    transcript,   \* the reply of the generation service, as its lines
    pc,           \* "start" before parseScript has run on the transcript, "done" after,
                  \* "waiting" as long as generateScript has no reply to parse
    script,       \* what parseScript returned (NoScript before the call)
    context,      \* the words put before and after the token in text
    token,        \* the piece of text the context is put around ("" when there is none)
    text,         \* a text handed to cleanText
    cleaned,      \* text after `passes` applications of cleanText
    passes,       \* the number of applications of cleanText so far
    article,      \* the Document handed to expandContent
    reply,        \* what the research command gives expandContent
    expansion,    \* the Document expandContent returned (NoDocument before the call)
    apiKey,       \* OPENROUTER_API_KEY ("" when it is not set)
    call,         \* where generateScript stands: "idle", "awaiting", "received", "failed"
    requests,     \* the number of requests sent to the generation service
    response,     \* what fetch got from the generation service (NoResponse before)
    error,        \* the message of the error generateScript threw ("" when none)
    processing,   \* server.js: the set of the ids of the articles being processed
    status,       \* Notion: the Status of every article
    link,         \* Notion: the Podcast Link of every article ("" when it has none)
    fate,         \* for every article, the call of its pipeline that fails
    runs,         \* for every call of processNewArticles, where it stands and its locals
    studio,       \* tts.js: which of its two versions runs, and what its tools do
    segmentPaths, \* generatePodcast: the paths handed to mergeAudio
    files,        \* the audio files written so far, each with the clips it plays
    podcast       \* generatePodcast: where it stands, its loop index and its outcome

parserVars == <<transcript, pc, script>>
cleanVars == <<context, token, text, cleaned, passes>>
expandVars == <<article, reply, expansion>>
callVars == <<apiKey, call, requests, response, error>>
serverVars == <<processing, status, link, fate, runs>>
podcastVars == <<studio, segmentPaths, files, podcast>>
vars == <<parserVars, cleanVars, expandVars, callVars, serverVars, podcastVars>>

(***************************************************************************)
(* Characters                                                              *)
(***************************************************************************)
Ch(s, i) == SubSeq(s, i, i)

Uppers == "ABCDEFGHIJKLMNOPQRSTUVWXYZ"
Lowers == "abcdefghijklmnopqrstuvwxyz"
Digits == "0123456789"

IndexIn(c, alphabet) ==
    LET hits == {k \in 1..Len(alphabet) : Ch(alphabet, k) = c}
    IN  IF hits = {} THEN 0 ELSE CHOOSE k \in hits : TRUE

CharsOf(alphabet) == {Ch(alphabet, k) : k \in 1..Len(alphabet)}
UpperChars == CharsOf(Uppers)
DigitChars == CharsOf(Digits)
\* \w
WordChars == UpperChars \cup CharsOf(Lowers) \cup DigitChars \cup {"_"}
LowerOf == [c \in UpperChars |-> Ch(Lowers, IndexIn(c, Uppers))]

\* the /i flag: both sides are compared in one case
LowerCh(c) == IF c \in UpperChars THEN LowerOf[c] ELSE c

\* the smallest k in lo..hi with p[k], 0 when there is none
RECURSIVE FirstPos(_, _, _)
FirstPos(p, lo, hi) ==
    IF lo > hi THEN 0
    ELSE IF lo = hi THEN (IF p[lo] THEN lo ELSE 0)
    ELSE LET mid  == (lo + hi) \div 2
             left == FirstPos(p, lo, mid)
         IN  IF left # 0 THEN left ELSE FirstPos(p, mid + 1, hi)

\* s with every character c replaced by f[c]
RECURSIVE MapChars(_, _)
MapChars(f, s) ==
    IF Len(s) = 0 THEN ""
    ELSE IF Len(s) = 1 THEN f[s]
    ELSE LET mid == Len(s) \div 2
         IN  MapChars(f, SubSeq(s, 1, mid)) \o MapChars(f, SubSeq(s, mid + 1, Len(s)))

ToLower(s) == MapChars([c \in STRING |-> LowerCh(c)], s)

\* \d
IsDigit(c) == c \in DigitChars
DigitVal(c) == IndexIn(c, Digits) - 1

IsWordCh(c) == c \in WordChars

\* \s
IsSpace(c) == c \in {" ", "\t", "\n"}

\* s has w at position i
HasAt(s, i, w) ==
    /\ i >= 1
    /\ i + Len(w) - 1 <= Len(s)
    /\ SubSeq(s, i, i + Len(w) - 1) = w

Contains(s, w) == \E k \in 1..(Len(s) - Len(w) + 1) : HasAt(s, k, w)

\* the first position >= i of s that holds c, 0 when there is none
FindFrom(s, c, i) == FirstPos([k \in 1..Len(s) |-> Ch(s, k) = c], i, Len(s))

\* the first position >= i of s that holds no white space (Len(s) + 1 at the end)
\* found when it is a position, otherwise
OrElse(found, otherwise) == IF found # 0 THEN found ELSE otherwise

SkipSpaces(s, i) ==
    OrElse(FirstPos([j \in 1..Len(s) |-> ~IsSpace(Ch(s, j))], i, Len(s)),
           IF i > Len(s) THEN i ELSE Len(s) + 1)

\* \b at the gap before position i
WordBoundary(s, i) ==
    LET before == i > 1 /\ i - 1 <= Len(s) /\ IsWordCh(Ch(s, i - 1))
        after  == i >= 1 /\ i <= Len(s) /\ IsWordCh(Ch(s, i))
    IN  before # after

\* String.prototype.trim
\* the position of the last character of s that is no white space, 0 for none
LastNonSpace(s) ==
    OrElse(Len(s) + 1
           - FirstPos([j \in 1..Len(s) |-> ~IsSpace(Ch(s, Len(s) + 1 - j))], 1, Len(s)),
           0) % (Len(s) + 1)

Trim(s) == SubSeq(s, SkipSpaces(s, 1), LastNonSpace(s))

\* String.prototype.replace with a /g pattern: the text is scanned from the
\* left; matchEnd[i] is the position after the match that starts at i (0 when
\* the pattern does not match there) and replacement[i] what that match is
\* replaced by; the scan goes on at matchEnd[i].  No pattern of this program
\* matches the empty string.
\* the first position >= from where the pattern matches, 0 for none;
\* matchEnd[k] is the position after the match that starts at k, 0 for none
FirstMatch(s, matchEnd, from) ==
    FirstPos([k \in 1..Len(s) |-> matchEnd[k] # 0], from, Len(s))

\* the rest of a replacement: acc is the result for s[1..from-1], start is
\* the first position >= from where the pattern matches, and replacement[k]
\* is what the match that starts at k is replaced by
RECURSIVE ReplaceFrom(_, _, _, _, _, _)
ReplaceFrom(s, matchEnd, replacement, from, acc, start) ==
    IF start = 0 THEN acc \o SubSeq(s, from, Len(s))
    ELSE ReplaceFrom(s, matchEnd, replacement, matchEnd[start],
                     acc \o SubSeq(s, from, start - 1) \o replacement[start],
                     FirstMatch(s, matchEnd, matchEnd[start]))

ReplaceAll(s, matchEnd, replacement) ==
    ReplaceFrom(s, matchEnd, replacement, 1, "", FirstMatch(s, matchEnd, 1))

\* the replacement of every match by one string
Always(s, by) == [k \in 1..Len(s) |-> by]

(***************************************************************************)
(* cleanText: the replacements of script-gen.js lines 192-214, one         *)
(* operator per .replace, each a left-to-right scan as String.replace      *)
(* with a /g pattern does it: a match is replaced and the scan goes on     *)
(* after it; where nothing matches, one character is copied.               *)
(***************************************************************************)

\* .replace(/\[[^\]]+\]/g, '')
\* \[[^\]]+\] at position i: the position after the match, 0 for none
\* the position after the closing character at position close, 0 when close is 0
After(close) == IF close = 0 THEN 0 ELSE close + 1

BracketedEnd(s, i) ==
    IF Ch(s, i) = "[" /\ i + 1 <= Len(s) /\ Ch(s, i + 1) # "]"
    THEN After(FindFrom(s, "]", i + 2))
    ELSE 0

BracketedEnds(s) == [i \in 1..Len(s) |-> BracketedEnd(s, i)]

\* the pattern without its g flag: only the first match goes
RemoveFirstBracketed(s) ==
    IF FirstMatch(s, BracketedEnds(s), 1) = 0 THEN s
    ELSE SubSeq(s, 1, FirstMatch(s, BracketedEnds(s), 1) - 1)
         \o SubSeq(s, BracketedEnd(s, FirstMatch(s, BracketedEnds(s), 1)), Len(s))

RemoveBracketed(s) == ReplaceAll(s, BracketedEnds(s), Always(s, ""))

\* the stems of the parenthetical pattern
ActionStems ==
    {"laugh", "chuckl", "sigh", "paus", "smil", "nod", "grin", "shrug",
     "gesture", "lean", "point", "wave", "clear", "cough", "snort", "giggl",
     "beam", "wink", "rais"}

\* the pattern of line 196 without its i flag
HasActionStemInCase(content) == \E stem \in ActionStems : Contains(content, stem)

HasActionStem(content) ==
    LET lc == ToLower(content) IN \E stem \in ActionStems : Contains(lc, stem)

\* \([^)]*(?:laugh|...|rais)[^)]*\) at position i: the position after the match, 0 for none
\* close is the first ")" after the "(" at position i, 0 for none
ParentheticalClosedAt(s, i, close) ==
    IF close # 0 /\ HasActionStem(SubSeq(s, i + 1, close - 1)) THEN close + 1 ELSE 0

ParentheticalEnd(s, i) ==
    IF Ch(s, i) # "(" THEN 0 ELSE ParentheticalClosedAt(s, i, FindFrom(s, ")", i + 1))

\* .replace(/\([^)]*(?:laugh|...|rais)[^)]*\)/gi, '')
RemoveParenthetical(s) ==
    ReplaceAll(s, [i \in 1..Len(s) |-> ParentheticalEnd(s, i)], Always(s, ""))

\* \*[^*]+\* at position i: the position after the match, 0 for none
AsteriskedEnd(s, i) ==
    IF Ch(s, i) = "*" /\ i + 1 <= Len(s) /\ Ch(s, i + 1) # "*"
    THEN After(FindFrom(s, "*", i + 2))
    ELSE 0

\* .replace(/\*[^*]+\*/g, '')
RemoveAsterisked(s) ==
    ReplaceAll(s, [i \in 1..Len(s) |-> AsteriskedEnd(s, i)], Always(s, ""))

\* the verbs of the standalone pattern that take an optional s
ActionVerbs ==
    {"laugh", "chuckle", "sigh", "giggle", "snort", "grin", "smile", "beam",
     "wink", "nod", "shrug", "pause"}

ActionAdverbs ==
    {"softly", "loudly", "nervously", "expectantly", "deeply", "quietly",
     "slightly", "knowingly", "warmly", "broadly", "briefly", "dramatically",
     "heartily", "sheepishly", "awkwardly", "excitedly", "thoughtfully",
     "ruefully", "wryly", "dryly"}

\* clears?\s+(?:his\s+|her\s+)?throat at position i of the lower-cased text:
\* the position after the match, 0 when it does not match
\* s? at position p: the position after it
OptionalS(lc, p) == IF HasAt(lc, p, "s") THEN p + 1 ELSE p

\* (?:his\s+|her\s+)?throat at position q, where the \s+ before it ended
ThroatEnd(lc, q) ==
    IF /\ HasAt(lc, q, "his") \/ HasAt(lc, q, "her")
       /\ SkipSpaces(lc, q + 3) > q + 3
       /\ HasAt(lc, SkipSpaces(lc, q + 3), "throat")
    THEN SkipSpaces(lc, q + 3) + 6
    ELSE IF HasAt(lc, q, "throat") THEN q + 6
    ELSE 0

\* \s+(?:his\s+|her\s+)?throat at position p
SpacesThroatEnd(lc, p) ==
    IF SkipSpaces(lc, p) = p THEN 0 ELSE ThroatEnd(lc, SkipSpaces(lc, p))

ClearThroatEnd(lc, i) ==
    IF ~HasAt(lc, i, "clear") THEN 0 ELSE SpacesThroatEnd(lc, OptionalS(lc, i + 5))

\* the words of a set that the text has at position i (no word of ActionVerbs
\* or of ActionAdverbs starts another one, so there is at most one)
WordsAt(lc, i, words) == {w \in words : HasAt(lc, i, w)}
TheWord(hit) == CHOOSE w \in hit : TRUE

\* the verb alternative at position i: the position after it, 0 for no match
ActionVerbEnd(lc, i) ==
    IF WordsAt(lc, i, ActionVerbs) # {}
    THEN OptionalS(lc, i + Len(TheWord(WordsAt(lc, i, ActionVerbs))))
    ELSE ClearThroatEnd(lc, i)

\* (?:\s+(?:softly|...))* from position p: the position after the last adverb
RECURSIVE AdverbsEnd(_, _)
RECURSIVE AdverbAfterSpaces(_, _, _)
AdverbsEnd(lc, p) == AdverbAfterSpaces(lc, p, SkipSpaces(lc, p))

\* q is where the white space that starts at p ends
AdverbAfterSpaces(lc, p, q) ==
    IF q > p /\ WordsAt(lc, q, ActionAdverbs) # {}
    THEN AdverbsEnd(lc, q + Len(TheWord(WordsAt(lc, q, ActionAdverbs))))
    ELSE p

\* [.,;!?]? at position a: the position after it
PunctuationEnd(s, a) ==
    IF a <= Len(s) /\ Ch(s, a) \in {".", ",", ";", "!", "?"} THEN a + 1 ELSE a

\* what follows the verb that ends before position v (0: there was no verb)
AfterVerbEnd(s, lc, v) ==
    IF v = 0 THEN 0 ELSE SkipSpaces(s, PunctuationEnd(s, AdverbsEnd(lc, v)))

\* the whole standalone pattern at position i: the position after the match, 0 for none
StandaloneEnd(s, lc, i) ==
    IF ~WordBoundary(s, i) THEN 0 ELSE AfterVerbEnd(s, lc, ActionVerbEnd(lc, i))

\* .replace(/\b(?:laughs?|...|clears?\s+(?:his\s+|her\s+)?throat)(?:\s+(?:softly|...))*[.,;!?]?\s*/gi, ' ')
RemoveStandaloneIn(s, lc) ==
    ReplaceAll(s, [i \in 1..Len(s) |-> StandaloneEnd(s, lc, i)], Always(s, " "))

RemoveStandalone(s) == RemoveStandaloneIn(s, ToLower(s))

(***************************************************************************)
(* formatYear (script-gen.js lines 221-272)                                *)
(***************************************************************************)
ones == <<"", "one", "two", "three", "four", "five", "six", "seven", "eight", "nine">>
teens == <<"ten", "eleven", "twelve", "thirteen", "fourteen", "fifteen", "sixteen",
           "seventeen", "eighteen", "nineteen">>
tens == <<"", "", "twenty", "thirty", "forty", "fifty", "sixty", "seventy", "eighty",
          "ninety">>

\* a JavaScript array read: index k counts from 0
At(arr, k) == arr[k + 1]

\* parseInt of a run of digits
RECURSIVE ParseInt(_)
ParseInt(digits) ==
    IF digits = "" THEN 0
    ELSE 10 * ParseInt(SubSeq(digits, 1, Len(digits) - 1)) + DigitVal(Ch(digits, Len(digits)))

\* lines 225-227
FormatYear2000s(year) == Trim("two thousand " \o At(ones, year - 2000))

\* lines 230-243
FormatYear2010s(year) ==
    LET lastTwo == year % 100
    IN  IF lastTwo < 10 THEN Trim("twenty " \o At(ones, lastTwo))
        ELSE IF lastTwo < 20 THEN "twenty " \o At(teens, lastTwo - 10)
        ELSE Trim("twenty " \o At(ones, lastTwo % 10))

\* lines 253-258
FirstPart(firstTwo) ==
    IF firstTwo < 20
    THEN IF firstTwo >= 10 THEN At(teens, firstTwo - 10) ELSE At(ones, firstTwo)
    ELSE At(tens, firstTwo \div 10)
         \o (IF firstTwo % 10 # 0 THEN " " \o At(ones, firstTwo % 10) ELSE "")

\* lines 260-269 without the "oh" of the years 01..09 of a century
SecondPartWithoutOh(lastTwo) ==
    IF lastTwo = 0 THEN "hundred"
    ELSE IF lastTwo < 10 THEN At(ones, lastTwo)
    ELSE IF lastTwo < 20 THEN At(teens, lastTwo - 10)
    ELSE At(tens, lastTwo \div 10)
         \o (IF lastTwo % 10 # 0 THEN "-" \o At(ones, lastTwo % 10) ELSE "")

\* lines 260-269
SecondPart(lastTwo) ==
    IF lastTwo = 0 THEN "hundred"
    ELSE IF lastTwo < 10 THEN "oh " \o At(ones, lastTwo)
    ELSE IF lastTwo < 20 THEN At(teens, lastTwo - 10)
    ELSE At(tens, lastTwo \div 10)
         \o (IF lastTwo % 10 # 0 THEN "-" \o At(ones, lastTwo % 10) ELSE "")

formatYear(yearStr) ==
    LET year == ParseInt(yearStr)
    IN  IF year >= 2000 /\ year <= 2009 THEN FormatYear2000s(year)
        ELSE IF year >= 2010 /\ year <= 2029 THEN FormatYear2010s(year)
        ELSE Trim(FirstPart(year \div 100) \o " " \o SecondPart(year % 100))

(***************************************************************************)
(* cleanText, continued: years, white space, symbols                       *)
(***************************************************************************)

\* \b<pattern>\b at position i, for a pattern of four digits told by IsYearAt:
\* the position after the match, 0 for none
YearEnd(s, i, isYear) ==
    IF isYear /\ WordBoundary(s, i) /\ WordBoundary(s, i + 4) THEN i + 4 ELSE 0

\* .replace(/\b<word>\b/g, spoken) for a fixed year (lines 203-205)
ReplaceToken(s, word, spoken) ==
    ReplaceAll(s, [i \in 1..Len(s) |-> YearEnd(s, i, HasAt(s, i, word))], Always(s, spoken))

\* 1[4-9]\d{2} at position i
IsHistoricalYearAt(s, i) ==
    /\ i + 3 <= Len(s)
    /\ Ch(s, i) = "1"
    /\ Ch(s, i + 1) \in {"4", "5", "6", "7", "8", "9"}
    /\ IsDigit(Ch(s, i + 2))
    /\ IsDigit(Ch(s, i + 3))

\* 20[0-3]\d at position i: a pattern one decade too wide
IsRecentYearWideAt(s, i) ==
    /\ i + 3 <= Len(s)
    /\ Ch(s, i) = "2"
    /\ Ch(s, i + 1) = "0"
    /\ Ch(s, i + 2) \in {"0", "1", "2", "3"}
    /\ IsDigit(Ch(s, i + 3))

\* 20[0-2]\d at position i
IsRecentYearAt(s, i) ==
    /\ i + 3 <= Len(s)
    /\ Ch(s, i) = "2"
    /\ Ch(s, i + 1) = "0"
    /\ Ch(s, i + 2) \in {"0", "1", "2"}
    /\ IsDigit(Ch(s, i + 3))

\* .replace(/\b(1[4-9]\d{2})\b/g, (match) => formatYear(match))
ReplaceHistoricalYears(s) ==
    ReplaceAll(s, [i \in 1..Len(s) |-> YearEnd(s, i, IsHistoricalYearAt(s, i))],
               [i \in 1..Len(s) |-> formatYear(SubSeq(s, i, i + 3))])

\* .replace(/\b(20[0-2]\d)\b/g, (match) => formatYear(match))
ReplaceRecentYears(s) ==
    ReplaceAll(s, [i \in 1..Len(s) |-> YearEnd(s, i, IsRecentYearAt(s, i))],
               [i \in 1..Len(s) |-> formatYear(SubSeq(s, i, i + 3))])

\* .replace(/\s+/g, ' ')
\* a white-space character that does not follow one: the start of a \s+ match
StartsSpaces(s, i) == IsSpace(Ch(s, i)) /\ (i = 1 \/ ~IsSpace(Ch(s, i - 1)))

\* s[lo..hi] with every \s+ match that starts in it replaced by one space,
\* and without the white space that goes on a match
RECURSIVE CollapseRange(_, _, _)
CollapseRange(s, lo, hi) ==
    IF lo > hi THEN ""
    ELSE IF lo = hi
    THEN IF ~IsSpace(Ch(s, lo)) THEN Ch(s, lo)
         ELSE IF StartsSpaces(s, lo) THEN " "
         ELSE ""
    ELSE LET mid == (lo + hi) \div 2
         IN  CollapseRange(s, lo, mid) \o CollapseRange(s, mid + 1, hi)

CollapseSpaces(s) == CollapseRange(s, 1, Len(s))

\* .replace(/<c>/g, by) for one character c
ReplaceChar(s, c, by) == MapChars([x \in STRING |-> IF x = c THEN by ELSE x], s)

\* the k-th call of the chain of lines 192-214, on what the calls before it left
CleanStep(k, s) ==
    CASE k = 1  -> RemoveBracketed(s)
      [] k = 2  -> RemoveParenthetical(s)
      [] k = 3  -> RemoveAsterisked(s)
      [] k = 4  -> RemoveStandalone(s)
      [] k = 5  -> ReplaceToken(s, "1776", "seventeen seventy-six")
      [] k = 6  -> ReplaceToken(s, "1787", "seventeen eighty-seven")
      [] k = 7  -> ReplaceToken(s, "1789", "seventeen eighty-nine")
      [] k = 8  -> ReplaceHistoricalYears(s)
      [] k = 9  -> ReplaceRecentYears(s)
      [] k = 10 -> CollapseSpaces(s)
      [] k = 11 -> ReplaceChar(s, "&", " and ")
      [] k = 12 -> ReplaceChar(s, "$", " dollars ")
      [] k = 13 -> ReplaceChar(s, "%", " percent ")
      [] k = 14 -> ReplaceChar(s, "\"", "\"")
      [] k = 15 -> ReplaceChar(s, "'", "'")
      [] k = 16 -> Trim(s)

\* t after the first k calls of the chain
RECURSIVE CleanSteps(_, _)
CleanSteps(k, t) == IF k = 0 THEN t ELSE CleanStep(k, CleanSteps(k - 1, t))

cleanText(t) == CleanSteps(16, t)

(***************************************************************************)
(* parseScript (script-gen.js lines 111-186)                               *)
(***************************************************************************)
NoSpeaker == "null"
NoMatch == [matched |-> FALSE, rest |-> ""]

\* the (.*) of a tag pattern whose \s* starts at position p
Captured(trimmed, p) ==
    [matched |-> TRUE, rest |-> SubSeq(trimmed, SkipSpaces(trimmed, p), Len(trimmed))]

\* lines 123-125: /^\[HOST\]:?\s*(.*)/i || /^HOST:\s*(.*)/i || /^ANDREW:\s*(.*)/i
HostTagMatch(trimmed, lc) ==
    IF HasAt(lc, 1, "[host]")
    THEN Captured(trimmed, IF HasAt(lc, 7, ":") THEN 8 ELSE 7)
    ELSE IF HasAt(lc, 1, "host:") THEN Captured(trimmed, 6)
    ELSE IF HasAt(lc, 1, "andrew:") THEN Captured(trimmed, 8)
    ELSE NoMatch

hostMatch(trimmed) == HostTagMatch(trimmed, ToLower(trimmed))

\* lines 126-128: /^\[EXPERT\]:?\s*(.*)/i || /^EXPERT:\s*(.*)/i || /^AVA:\s*(.*)/i
ExpertTagMatch(trimmed, lc) ==
    IF HasAt(lc, 1, "[expert]")
    THEN Captured(trimmed, IF HasAt(lc, 9, ":") THEN 10 ELSE 9)
    ELSE IF HasAt(lc, 1, "expert:") THEN Captured(trimmed, 8)
    ELSE IF HasAt(lc, 1, "ava:") THEN Captured(trimmed, 5)
    ELSE NoMatch

expertMatch(trimmed) == ExpertTagMatch(trimmed, ToLower(trimmed))

HostNames == {"andrew", "host"}
ExpertNames == {"ava", "aria", "emily", "expert"}

\* .replace(/^(<names>):\s*/i, '').trim()  (lines 139 and 150)
\* hit: the names of the pattern that rest starts with, a colon after them
StripName(rest, hit) ==
    IF hit = {} THEN Trim(rest)
    ELSE Trim(SubSeq(rest, SkipSpaces(rest, Len(TheWord(hit)) + 1), Len(rest)))

StripNamePrefix(rest, names) ==
    StripName(rest, WordsAt(ToLower(rest), 1, {n \o ":" : n \in names}))

\* currentText.join(' ')
RECURSIVE JoinRange(_, _, _)
JoinRange(buf, lo, hi) ==
    IF lo > hi THEN ""
    ELSE IF lo = hi THEN buf[lo]
    ELSE LET mid == (lo + hi) \div 2
         IN  JoinRange(buf, lo, mid) \o " " \o JoinRange(buf, mid + 1, hi)

Join(buf) == JoinRange(buf, 1, Len(buf))

\* lines 131-136, 142-147, 161-166: push the buffered segment
Flush(st) ==
    IF st.speaker # NoSpeaker /\ Len(st.buf) > 0
    THEN Append(st.segs, [speaker |-> st.speaker, text |-> Trim(Join(st.buf))])
    ELSE st.segs

\* /^\[.*\]$/ on a trimmed line (line 154)
IsBracketOnly(trimmed) ==
    Len(trimmed) >= 2 /\ Ch(trimmed, 1) = "[" /\ Ch(trimmed, Len(trimmed)) = "]"

\* lines 130-157 without the push of lines 143-148: an expert tag drops the
\* segment before it
ScanTrimmedWithoutPush(st, trimmed, hm, em) ==
    IF hm.matched
    THEN [speaker |-> "host",
          buf     |-> <<StripNamePrefix(hm.rest, HostNames)>>,
          segs    |-> Flush(st)]
    ELSE IF em.matched
    THEN [speaker |-> "expert",
          buf     |-> <<StripNamePrefix(em.rest, ExpertNames)>>,
          segs    |-> st.segs]
    ELSE IF st.speaker # NoSpeaker /\ ~IsBracketOnly(trimmed)
    THEN [st EXCEPT !.buf = Append(@, trimmed)]
    ELSE st

\* lines 130-157 with currentSpeaker starting as 'host': the lines before the
\* first tag are the host's
ScanTrimmedFromHost(st, trimmed, hm, em) ==
    IF hm.matched
    THEN [speaker |-> "host",
          buf     |-> <<StripNamePrefix(hm.rest, HostNames)>>,
          segs    |-> Flush(st)]
    ELSE IF em.matched
    THEN [speaker |-> "expert",
          buf     |-> <<StripNamePrefix(em.rest, ExpertNames)>>,
          segs    |-> Flush(st)]
    ELSE IF ~IsBracketOnly(trimmed)
    THEN [speaker |-> IF st.speaker = NoSpeaker THEN "host" ELSE st.speaker,
          buf     |-> Append(st.buf, trimmed),
          segs    |-> st.segs]
    ELSE st

\* lines 130-157, for a line that is not blank
ScanTrimmed(st, trimmed, hm, em) ==
    IF hm.matched
    THEN [speaker |-> "host",
          buf     |-> <<StripNamePrefix(hm.rest, HostNames)>>,
          segs    |-> Flush(st)]
    ELSE IF em.matched
    THEN [speaker |-> "expert",
          buf     |-> <<StripNamePrefix(em.rest, ExpertNames)>>,
          segs    |-> Flush(st)]
    ELSE IF st.speaker # NoSpeaker /\ ~IsBracketOnly(trimmed)
    THEN [st EXCEPT !.buf = Append(@, trimmed)]
    ELSE st

\* lines 120-157, for the line as trimmed
ScanMatched(st, trimmed) ==
    IF trimmed = "" THEN st
    ELSE ScanTrimmed(st, trimmed, hostMatch(trimmed), expertMatch(trimmed))

\* one turn of the loop of lines 118-158
ScanLine(st, line) == ScanMatched(st, Trim(line))

\* the loop's variables after its first n turns (lines 112-158)
RECURSIVE ScanLines(_, _)
ScanLines(lines, n) ==
    IF n = 0 THEN [speaker |-> NoSpeaker, buf |-> <<>>, segs |-> <<>>]
    ELSE ScanLine(ScanLines(lines, n - 1), lines[n])

\* the segments of lines 112-166, before the clean-up
RawSegments(lines) == Flush(ScanLines(lines, Len(lines)))

\* seg.text.length > 10 (line 170)
MinTextLength == 10

\* the filter of line 170 with a threshold of 5 characters
LongerThanFive(seg) == Len(seg.text) > 5

LongEnough(seg) == Len(seg.text) > MinTextLength

\* lines 169-174: .filter(...).map(...)
CleanSegments(segs) ==
    LET kept == SelectSeq(segs, LongEnough)
    IN  [k \in 1..Len(kept) |-> [kept[k] EXCEPT !.text = cleanText(@)]]

\* seg.text.split(' ').length (line 177): one more than the number of spaces
SplitLength(t) == Cardinality({k \in 1..Len(t) : Ch(t, k) = " "}) + 1

\* the sum of f[k] for k in lo..hi
RECURSIVE SumOver(_, _, _)
SumOver(f, lo, hi) ==
    IF lo > hi THEN 0
    ELSE IF lo = hi THEN f[lo]
    ELSE LET mid == (lo + hi) \div 2
         IN  SumOver(f, lo, mid) + SumOver(f, mid + 1, hi)

\* lines 176-177: .reduce((sum, seg) => sum + seg.text.split(' ').length, 0)
TotalWords(segs) == SumOver([k \in 1..Len(segs) |-> SplitLength(segs[k].text)], 1, Len(segs))

\* config.content.wordsPerMinute (config.js line 17)
wordsPerMinute == 150

\* Math.floor in the place of Math.round
FloorDiv(n, d) == n \div d

\* Math.round(n / d) for n >= 0, d > 0: halves go up
RoundDiv(n, d) == (2 * n + d) \div (2 * d)

\* lines 181-185
Script(cleanedSegments, totalWords) ==
    [segments         |-> cleanedSegments,
     totalWords       |-> totalWords,
     estimatedMinutes |-> RoundDiv(totalWords, wordsPerMinute)]

\* lines 176-185
ScriptOf(cleanedSegments) == Script(cleanedSegments, TotalWords(cleanedSegments))

parseScript(lines) == ScriptOf(CleanSegments(RawSegments(lines)))

(***************************************************************************)
(* The inputs                                                              *)
(***************************************************************************)
MaxLines == 3
MaxTokens == 3
MaxPasses == 2
MaxShort == 120
MinNumber == 1350
MaxNumber == 2100
MaxLongLines == 10
MaxLineBlocks == 10
WordStep == 15

\* lines a reply of the generation service is made of: tag lines in each of
\* the accepted forms, with short and long inline texts, with stage
\* directions, symbols and a year, and lines that carry no tag
ReplyLines ==
    {"[EXPERT]: B",
     "[HOST]: hello world",
     "[EXPERT]: Thanks for having me",
     "[HOST]: [laughs] [pause]",
     "HOST: Andrew: cats & dogs cost $5",
     "Ava: []x] is 100% true",
     "  [expert] Emily: back in 1999 (laughs warmly) okay ",
     "and one more thing",
     "[pause]",
     ""}

\* a reply of three tag lines with short inline texts
ShortReply == <<"[HOST]: A", "[EXPERT]: B", "[HOST]: C">>

Transcripts == UNION {[1..n -> ReplyLines] : n \in 0..MaxLines} \cup {ShortReply}

\* lines of replies whose segments are short and long: tag lines with inline
\* texts of 5, 9, 10 and 11 characters, and lines without a tag
FilterLines ==
    {"[HOST]: hello",
     "[EXPERT]: nine char",
     "[HOST]: ten chars!",
     "[EXPERT]: eleven char",
     "so",
     "[pause]",
     ""}

FilterTranscripts == UNION {[1..n -> FilterLines] : n \in 0..MaxLines}

\* lines without a speaker tag: plain text, an annotation, a blank line, a
\* name that is no tag, and near misses of the tags
UntaggedLines ==
    {"and one more thing",
     "[pause]",
     "",
     "Emily: hi there everyone",
     "[HOSTS]: many words are here",
     "The host: a long sentence here",
     "EXPERT - thanks for having me"}

UntaggedTranscripts == UNION {[1..n -> UntaggedLines] : n \in 0..MaxLines}

\* tag lines that repeat a name once and twice
DialogueTags ==
    {"[HOST]: Andrew: Host: hello there all",
     "[EXPERT]: Ava: glad to be here"}

\* lines without a tag: dialogue that starts with a name, plain dialogue, an
\* annotation, dialogue between two annotations, and a blank line
DialogueOthers ==
    {"Emily: hi there everyone",
     "and one more thing",
     "[pause]",
     "[laughs] that is so true [pause]",
     ""}

DialogueTranscripts ==
    UNION {[1..n -> DialogueTags \cup DialogueOthers] : n \in 0..MaxLines}

\* replies with a stage direction in parentheses on a tag line
StageTranscripts ==
    {<<"[HOST]: Hi there (laughs warmly) welcome">>,
     <<"[EXPERT]: Thanks for having me (smiles)">>,
     <<"[HOST]: Hi there (laughs warmly) welcome", "[EXPERT]: Thanks (a clear example) a lot">>}

\* what stands between parentheses: the verbs of stage directions, bare and
\* with an s, some with a capital, each alone and with an adverb
StageVerbs ==
    {"laugh", "laughs", "Laughs", "chuckle", "chuckles", "sigh", "sighs", "SIGHS",
     "smile", "smiles", "nod", "nods", "grin", "grins", "shrug", "shrugs",
     "gesture", "gestures", "lean", "leans", "point", "points", "wave", "waves",
     "clear throat", "clears throat", "cough", "coughs", "snort", "snorts",
     "giggle", "giggles", "beam", "beams", "wink", "winks", "raise", "raises"}

StageAdverbs == {"", " warmly", " softly", " expectantly", " Loudly"}

StageDirections == {verb \o adverb : verb \in StageVerbs, adverb \in StageAdverbs}

\* what stands between parentheses and is no stage direction
RealContents == {"a clear example", "see the point above", "see figure 2", "by the way"}

\* plain words around a parenthetical, and the text they make without it:
\* cleanText leaves the words as they are
ParenContexts ==
    {[before |-> "", after |-> "", without |-> ""],
     [before |-> "Hi there ", after |-> " welcome", without |-> "Hi there welcome"],
     [before |-> "It works", after |-> "!", without |-> "It works!"]}

\* pieces a text handed to cleanText is made of
TextTokens == {"a", " ", "&", "[", "]", "(", ")", "*", "laughs", "2024"}

RECURSIVE TextsOf(_)
TextsOf(n) ==
    IF n = 0 THEN {""}
    ELSE LET shorter == TextsOf(n - 1)
         IN  shorter \cup {t \o tok : t \in shorter, tok \in TextTokens}

\* w words, one space between two
RECURSIVE Words(_)
Words(w) ==
    IF w = 0 THEN ""
    ELSE IF w = 1 THEN "so"
    ELSE Words(w \div 2) \o " " \o Words(w - (w \div 2))

\* a reply of n tag lines, the speakers taking turns, w words on each line
LongTranscript(n, w) ==
    [k \in 1..n |-> (IF k % 2 = 1 THEN "[HOST]: " ELSE "[EXPERT]: ") \o Words(w)]

LongTranscripts ==
    {LongTranscript(n, b * WordStep) : n \in 0..MaxLongLines, b \in 1..MaxLineBlocks}

\* the decimal digits of n, and n in four digits
RECURSIVE Decimal(_)
Decimal(n) ==
    IF n < 10 THEN Ch(Digits, n + 1)
    ELSE Decimal(n \div 10) \o Ch(Digits, (n % 10) + 1)

FourDigits(n) ==
    (IF n < 10 THEN "000" ELSE IF n < 100 THEN "00" ELSE IF n < 1000 THEN "0" ELSE "")
    \o Decimal(n)

\* the numbers a run of digits is written from: short ones, the ones around
\* the years cleanText speaks, and two far above them
Numbers == (0..MaxShort) \cup (MinNumber..MaxNumber) \cup {3000, 9999}

\* runs of digits: of one to four digits, of four digits with leading zeros,
\* and of five digits that hold a four-digit number
DigitRuns ==
    UNION {{Decimal(n), FourDigits(n), FourDigits(n) \o "0", "1" \o FourDigits(n)}
           : n \in Numbers}

\* plain words around a token: cleanText leaves them as they are
Contexts ==
    {[before |-> "", after |-> ""],
     [before |-> "In ", after |-> " it happened"],
     [before |-> "(by ", after |-> ")."]}

NoContext == [before |-> "", after |-> ""]
NoScript == [segments |-> <<>>, totalWords |-> -1, estimatedMinutes |-> -1]

(***************************************************************************)
(* expandContent (src/unnamed/part_000)                                    *)
(***************************************************************************)
\* text.split(/\s+/).filter(word => word.length > 0).length
countWords(t) ==
    Cardinality({k \in 1..Len(t) : ~IsSpace(Ch(t, k)) /\ (k = 1 \/ IsSpace(Ch(t, k - 1)))})

\* { ...article, ...extra }: the fields of extra come after those of article
Spread(doc, extra) ==
    [f \in DOMAIN doc \cup DOMAIN extra |-> IF f \in DOMAIN extra THEN extra[f] ELSE doc[f]]

\* response.f: "" stands for a field that is missing as for one that is empty,
\* both are falsy
Field(fields, f) == IF f \in DOMAIN fields THEN fields[f] ELSE ""

\* response.output || response.result || ''
Supplementary(fields) ==
    IF Field(fields, "output") # "" THEN Field(fields, "output")
    ELSE Field(fields, "result")

Delimiter == "\n\n--- Additional Research ---\n\n"

\* the object of the return statement of the try block
Expanded(doc, supplementary) ==
    Spread(doc, [content   |-> doc.content \o Delimiter \o supplementary,
                 wordCount |-> countWords(doc.content) + countWords(supplementary),
                 expanded  |-> TRUE])

\* the catch block takes the failures of the try block in
ExpandedDespiteFailure(doc, r) == Expanded(doc, Supplementary(r.fields))

\* the try block throws when the command fails (execSync), when its output
\* is no JSON (JSON.parse) and when the output is null (response.output)
expandContent(doc, r) ==
    IF r.kind = "object"
    THEN Expanded(doc, Supplementary(r.fields))
    ELSE Spread(doc, [expanded |-> FALSE])

\* fetchArticle: wordCount is countWords(content)
Document(title, content) ==
    [title |-> title, content |-> content, wordCount |-> countWords(content)]

Documents ==
    {Document("Cats", "Cats sleep a lot."),
     Document("Untitled Article", "One\n\ntwo  three\tfour "),
     Document("Empty", "")}

NoDocument == [title |-> "", content |-> "", wordCount |-> -1]

\* the fields an answer may carry its text in, and the texts
TextFields == {"output", "result", "content"}
FieldTexts == {"", "new facts", "Two more\n\nparagraphs of  research.\n"}

NoFields == [f \in {} |-> ""]

\* what the research command gives: a failure, an output that is no JSON,
\* the JSON null, or a JSON object with some of the text fields
Replies ==
    {[kind |-> k, fields |-> NoFields] : k \in {"fails", "unparsable", "null"}}
    \cup {[kind |-> "object", fields |-> o] :
              o \in UNION {[fs -> FieldTexts] : fs \in SUBSET TextFields}}

NoReply == [kind |-> "none", fields |-> NoFields]

(***************************************************************************)
(* generateScript and callClaude (src/lib/script-gen.js)                   *)
(***************************************************************************)
\* the texts the generation service answers with, as their lines: a text
\* has one line at least, and <<"">> is the empty text
ReplyContents == {t \in FilterTranscripts : Len(t) >= 1}

\* what fetch gets from the generation service:
\*   "network"      no HTTP response, fetch rejects
\*   "not ok"       a response with a status outside 200..299
\*   "not json"     a body that is no JSON, response.json() rejects
\*   "no choices"   a JSON body without the array choices
\*   "no choice"    choices is empty
\*   "no message"   choices[0] has no message
\*   "no content"   the message has no content, or the content null
\*   "content"      the message has a string as its content
Responses ==
    {[kind |-> k, content |-> <<>>] :
         k \in {"network", "not ok", "not json", "no choices", "no choice",
                "no message", "no content"}}
    \cup {[kind |-> "content", content |-> t] : t \in ReplyContents}

NoResponse == [kind |-> "none", content |-> <<>>]

\* callClaude with a test for a missing content only (content === undefined)
ThrownUnlessEmpty(r) ==
    CASE r.kind = "network"    -> "fetch failed"
      [] r.kind = "not ok"     -> "OpenRouter API error"
      [] r.kind = "not json"   -> "Unexpected token in JSON"
      [] r.kind = "no choices" -> "Cannot read properties of undefined"
      [] r.kind \in {"no choice", "no message", "no content"}
                               -> "OpenRouter returned empty content"
      [] OTHER                 -> ""

\* the message of the error callClaude throws on the response r, "" when it
\* returns the content: fetch rejects (line 16), !response.ok (lines 32-37),
\* response.json() rejects (line 39), data.choices[0] of a missing array
\* (line 40), !content (lines 42-45)
Thrown(r) ==
    CASE r.kind = "network"    -> "fetch failed"
      [] r.kind = "not ok"     -> "OpenRouter API error"
      [] r.kind = "not json"   -> "Unexpected token in JSON"
      [] r.kind = "no choices" -> "Cannot read properties of undefined"
      [] r.kind \in {"no choice", "no message", "no content"}
                               -> "OpenRouter returned empty content"
      [] r.kind = "content" /\ r.content = <<"">>
                               -> "OpenRouter returned empty content"
      [] OTHER                 -> ""

\* the values of OPENROUTER_API_KEY: not set (or empty), and set
ApiKeys == {"", "sk-or-v1-key"}

(***************************************************************************)
(* processNewArticles and processArticle (src/server.js)                   *)
(***************************************************************************)
\* the pages of the Notion database, in the order of their Created dates
Articles == {"page-1", "page-2"}
Created == <<"page-1", "page-2">>

\* the calls of processNewArticles that may overlap: one started by
\* POST /webhook, one by POST /process
Runs == {"webhook", "process"}

Statuses == {"New", "Processing", "Complete", "Error"}

\* the awaited calls of processArticle, in their order
Stages ==
    <<"updateStatus", "fetchArticle", "generateScript", "generatePodcast",
      "uploadToGitHub", "markComplete">>

\* what becomes of an article: the awaited call that throws ("none" when
\* all succeed), and whether markError throws when it is called
Fates ==
    {[fails |-> "none", markErrorFails |-> FALSE],
     [fails |-> "uploadToGitHub", markErrorFails |-> FALSE]}
    \cup {[fails |-> Stages[k], markErrorFails |-> b] :
              k \in {1, 2, 3, 4, 6}, b \in BOOLEAN}

LocalPath(a) == "output/" \o a \o ".mp3"
PublicUrl(a) == "https://github.com/releases/download/" \o a \o ".mp3"

NoRun ==
    [pc |-> "idle", articles |-> <<>>, index |-> 0, stage |-> "",
     podcastUrl |-> "", err |-> "", results |-> <<>>]

\* getNewArticles: the pages with Status New, sorted by Created
RECURSIVE NewArticles(_, _)
NewArticles(st, n) ==
    IF n = 0 THEN <<>>
    ELSE IF st[Created[n]] = "New"
         THEN Append(NewArticles(st, n - 1), Created[n])
         ELSE NewArticles(st, n - 1)

\* the loop of lines 110-114 without the test of line 111
NextAny(list, i, busy) == i

\* lines 110-114: the index of the first article from i on that is not in
\* the processing set, Len(list) + 1 when there is none
NextFree(list, i, busy) ==
    IF \E j \in i..Len(list) : list[j] \notin busy
    THEN CHOOSE j \in i..Len(list) :
             /\ list[j] \notin busy
             /\ \A k \in i..(j - 1) : list[k] \in busy
    ELSE Len(list) + 1

\* the loop from index i on, up to the await of line 118 (the call of
\* updateStatus in processArticle, line 135) or to the return of line 125
Enter(run, i, busy) ==
    IF NextFree(run.articles, i, busy) > Len(run.articles)
    THEN [run EXCEPT !.pc = "done", !.index = Len(run.articles) + 1, !.stage = ""]
    ELSE [run EXCEPT !.pc = "pipeline", !.index = NextFree(run.articles, i, busy),
                     !.stage = "updateStatus", !.podcastUrl = "", !.err = ""]

\* line 117: processing.add(article.id), when the loop has found an article
Added(run, i, busy) ==
    IF NextFree(run.articles, i, busy) > Len(run.articles)
    THEN busy
    ELSE busy \cup {run.articles[NextFree(run.articles, i, busy)]}

\* the article a run is processing
Current(run) == run.articles[run.index]

\* the catch of lines 189-191: markError is called with the error
Caught(run, message) == [run EXCEPT !.stage = "markError", !.err = message]

(***************************************************************************)
(* The specifications                                                      *)
(***************************************************************************)
NoExpansion == article = NoDocument /\ reply = NoReply /\ expansion = NoDocument
NoCall ==
    apiKey = "" /\ call = "idle" /\ requests = 0 /\ response = NoResponse /\ error = ""
NoServer ==
    /\ processing = {} /\ runs = [r \in Runs |-> NoRun]
    /\ status = [a \in Articles |-> "New"] /\ link = [a \in Articles |-> ""]
    /\ fate = [a \in Articles |-> [fails |-> "none", markErrorFails |-> FALSE]]
NoStudio == [variant |-> "", music |-> {}, merger |-> "", failing |-> 0]
NoPodcast == [pc |-> "idle", i |-> 0, error |-> "", audio |-> <<>>]
NoAudio ==
    studio = NoStudio /\ segmentPaths = <<>> /\ files = {} /\ podcast = NoPodcast
Idle == NoExpansion /\ NoCall /\ NoServer /\ NoAudio
NoText == context = NoContext /\ token = "" /\ text = "" /\ cleaned = "" /\ passes = 0
NoTranscript == transcript = <<>> /\ pc = "start" /\ script = NoScript

\* generateScript, lines 104-105: the reply goes through parseScript
ParseScript ==
    /\ pc = "start"
    /\ script' = parseScript(transcript)
    /\ pc' = "done"
    /\ UNCHANGED <<transcript, cleanVars, expandVars, callVars, serverVars, podcastVars>>

\* one call of cleanText on the text as it stands
CleanText ==
    /\ passes < MaxPasses
    /\ cleaned' = cleanText(cleaned)
    /\ passes' = passes + 1
    /\ UNCHANGED <<parserVars, context, token, text, expandVars, callVars, serverVars, podcastVars>>

\* the parser on replies made of ReplyLines
Init == transcript \in Transcripts /\ pc = "start" /\ script = NoScript /\ Idle /\ NoText
Next == ParseScript
Spec == Init /\ [][Next]_vars

\* the parser on long replies
InitDuration == transcript \in LongTranscripts /\ pc = "start" /\ script = NoScript /\ Idle /\ NoText
SpecDuration == InitDuration /\ [][Next]_vars

\* the parser on replies made of FilterLines
InitFilter == transcript \in FilterTranscripts /\ pc = "start" /\ script = NoScript /\ Idle /\ NoText
SpecFilter == InitFilter /\ [][Next]_vars

\* the parser on replies made of UntaggedLines
InitUntagged ==
    transcript \in UntaggedTranscripts /\ pc = "start" /\ script = NoScript /\ Idle /\ NoText
SpecUntagged == InitUntagged /\ [][Next]_vars

\* the parser on replies whose tag lines repeat a name and whose other lines
\* are dialogue, annotations, or both
InitDialogue ==
    transcript \in DialogueTranscripts /\ pc = "start" /\ script = NoScript /\ Idle /\ NoText
SpecDialogue == InitDialogue /\ [][Next]_vars

\* cleanText on a parenthetical in plain words, and the parser on replies
\* with such parentheticals
InitStage ==
    \/ /\ transcript \in StageTranscripts /\ pc = "start" /\ script = NoScript /\ Idle
       /\ NoText
    \/ /\ NoTranscript /\ Idle
       /\ context \in ParenContexts /\ token \in StageDirections \cup RealContents
       /\ text = context.before \o "(" \o token \o ")" \o context.after
       /\ cleaned = text /\ passes = 0
NextStage == ParseScript \/ CleanText
SpecStage == InitStage /\ [][NextStage]_vars

\* cleanText on texts made of TextTokens
InitClean ==
    /\ NoTranscript /\ Idle
    /\ context = NoContext /\ token = ""
    /\ text \in TextsOf(MaxTokens)
    /\ cleaned = text /\ passes = 0
NextClean == CleanText
SpecClean == InitClean /\ [][NextClean]_vars

\* cleanText on a run of digits in plain words
InitYear ==
    /\ NoTranscript /\ Idle
    /\ context \in Contexts /\ token \in DigitRuns
    /\ text = context.before \o token \o context.after
    /\ cleaned = text /\ passes = 0
SpecYear == InitYear /\ [][NextClean]_vars

\* generateScript without the test of lines 56-58
GenerateScriptWithoutKey ==
    /\ call = "idle"
    /\ call' = "awaiting" /\ requests' = requests + 1
    /\ UNCHANGED <<apiKey, response, error, parserVars, cleanVars, expandVars, serverVars, podcastVars>>

\* generateScript up to the request: without a key it throws (lines 56-58),
\* with one callClaude sends the request (line 16) and awaits the response
GenerateScript ==
    /\ call = "idle"
    /\ IF apiKey = ""
       THEN call' = "failed" /\ error' = "OPENROUTER_API_KEY not set"
            /\ requests' = requests
       ELSE call' = "awaiting" /\ requests' = requests + 1 /\ error' = error
    /\ UNCHANGED <<apiKey, response, parserVars, cleanVars, expandVars, serverVars, podcastVars>>

\* the generation service answers, or the connection fails
Respond(r) ==
    /\ call = "awaiting" /\ response = NoResponse
    /\ response' = r
    /\ UNCHANGED <<apiKey, call, requests, error, parserVars, cleanVars, expandVars, serverVars, podcastVars>>

\* callClaude goes on with the response (lines 32-47): it throws, and so
\* does generateScript (line 104), or it returns the content, which
\* generateScript hands to parseScript (line 105)
CallClaude ==
    /\ call = "awaiting" /\ response # NoResponse
    /\ IF Thrown(response) # ""
       THEN /\ call' = "failed" /\ error' = Thrown(response)
            /\ UNCHANGED parserVars
       ELSE /\ call' = "received" /\ error' = error
            /\ transcript' = response.content /\ pc' = "start"
            /\ script' = script
    /\ UNCHANGED <<apiKey, requests, response, cleanVars, expandVars, serverVars, podcastVars>>

\* generateScript on a Document: the service is free to answer or not, the
\* steps of the program are taken when they can be
InitGenerate ==
    /\ apiKey \in ApiKeys /\ call = "idle" /\ requests = 0
    /\ response = NoResponse /\ error = ""
    /\ transcript = <<>> /\ pc = "waiting" /\ script = NoScript
    /\ article \in Documents /\ reply = NoReply /\ expansion = NoDocument
    /\ NoText /\ NoServer /\ NoAudio
NextGenerate ==
    \/ GenerateScript
    \/ \E r \in Responses : Respond(r)
    \/ CallClaude
    \/ ParseScript
\* the steps of ParseScript are the steps from pc = "start" to pc = "done"
Parsing == pc = "start" /\ pc' = "done"

\* the program runs on: generateScript is called, callClaude goes on once
\* the response is there, and parseScript runs once it has the reply; nothing
\* makes the service answer
SpecGenerate ==
    /\ InitGenerate /\ [][NextGenerate]_vars
    /\ WF_vars(GenerateScript) /\ WF_vars(CallClaude) /\ WF_pc(Parsing)

\* expandContent, once, on a Document and what the research command gives
ExpandContent ==
    /\ expansion = NoDocument
    /\ article # NoDocument
    /\ expansion' = expandContent(article, reply)
    /\ UNCHANGED <<article, reply, parserVars, cleanVars, callVars, serverVars, podcastVars>>

InitExpand ==
    /\ article \in Documents /\ reply \in Replies /\ expansion = NoDocument
    /\ NoTranscript /\ NoText /\ NoCall /\ NoServer /\ NoAudio
NextExpand == ExpandContent
SpecExpand == InitExpand /\ [][NextExpand]_vars

\* processNewArticles is called (POST /webhook, POST /process) and awaits
\* getNewArticles (line 105): Notion answers the query with the pages that
\* are New at that time, or the query fails and processNewArticles rejects
GetNewArticles(r) ==
    /\ runs[r].pc = "idle"
    /\ \E ok \in BOOLEAN :
          runs' = [runs EXCEPT ![r] =
                      IF ok
                      THEN [@ EXCEPT !.pc = "listed", !.index = 1,
                                     !.articles = NewArticles(status, Len(Created))]
                      ELSE [@ EXCEPT !.pc = "rejected"]]
    /\ UNCHANGED <<processing, status, link, fate>>
    /\ UNCHANGED <<parserVars, cleanVars, expandVars, callVars, podcastVars>>

\* processNewArticles goes on with the list (lines 106-118)
StartLoop(r) ==
    /\ runs[r].pc = "listed"
    /\ runs' = [runs EXCEPT ![r] = Enter(@, 1, processing)]
    /\ processing' = Added(runs[r], 1, processing)
    /\ UNCHANGED <<status, link, fate>>
    /\ UNCHANGED <<parserVars, cleanVars, expandVars, callVars, podcastVars>>

\* updateStatus(id, 'Processing') settles (line 135)
AwaitUpdateStatus(r) ==
    /\ runs[r].pc = "pipeline" /\ runs[r].stage = "updateStatus"
    /\ IF fate[Current(runs[r])].fails = "updateStatus"
       THEN /\ runs' = [runs EXCEPT ![r] = Caught(@, "updateStatus")]
            /\ status' = status
       ELSE /\ runs' = [runs EXCEPT ![r].stage = "fetchArticle"]
            /\ status' = [status EXCEPT ![Current(runs[r])] = "Processing"]
    /\ UNCHANGED <<processing, link, fate>>
    /\ UNCHANGED <<parserVars, cleanVars, expandVars, callVars, podcastVars>>

\* fetchArticle settles (line 138); expandContent (line 147) does not throw
AwaitFetchArticle(r) ==
    /\ runs[r].pc = "pipeline" /\ runs[r].stage = "fetchArticle"
    /\ runs' = [runs EXCEPT ![r] =
                   IF fate[Current(@)].fails = "fetchArticle"
                   THEN Caught(@, "fetchArticle")
                   ELSE [@ EXCEPT !.stage = "generateScript"]]
    /\ UNCHANGED <<processing, status, link, fate>>
    /\ UNCHANGED <<parserVars, cleanVars, expandVars, callVars, podcastVars>>

\* generateScript settles (line 151)
AwaitGenerateScript(r) ==
    /\ runs[r].pc = "pipeline" /\ runs[r].stage = "generateScript"
    /\ runs' = [runs EXCEPT ![r] =
                   IF fate[Current(@)].fails = "generateScript"
                   THEN Caught(@, "generateScript")
                   ELSE [@ EXCEPT !.stage = "generatePodcast"]]
    /\ UNCHANGED <<processing, status, link, fate>>
    /\ UNCHANGED <<parserVars, cleanVars, expandVars, callVars, podcastVars>>

\* generatePodcast settles (line 162); podcastUrl starts as the local path
\* (line 165)
AwaitGeneratePodcast(r) ==
    /\ runs[r].pc = "pipeline" /\ runs[r].stage = "generatePodcast"
    /\ runs' = [runs EXCEPT ![r] =
                   IF fate[Current(@)].fails = "generatePodcast"
                   THEN Caught(@, "generatePodcast")
                   ELSE [@ EXCEPT !.stage = "uploadToGitHub",
                                  !.podcastUrl = LocalPath(Current(runs[r]))]]
    /\ UNCHANGED <<processing, status, link, fate>>
    /\ UNCHANGED <<parserVars, cleanVars, expandVars, callVars, podcastVars>>

\* uploadToGitHub without the try of lines 166-171: its error goes to the
\* catch of line 189
AwaitUploadUncaught(r) ==
    /\ runs[r].pc = "pipeline" /\ runs[r].stage = "uploadToGitHub"
    /\ runs' = [runs EXCEPT ![r] =
                   IF fate[Current(@)].fails = "uploadToGitHub"
                   THEN Caught(@, "uploadToGitHub")
                   ELSE [@ EXCEPT !.stage = "markComplete",
                                  !.podcastUrl = PublicUrl(Current(runs[r]))]]
    /\ UNCHANGED <<processing, status, link, fate>>
    /\ UNCHANGED <<parserVars, cleanVars, expandVars, callVars, podcastVars>>

\* uploadToGitHub settles (lines 166-171): its error is caught on the spot
AwaitUpload(r) ==
    /\ runs[r].pc = "pipeline" /\ runs[r].stage = "uploadToGitHub"
    /\ runs' = [runs EXCEPT ![r] =
                   IF fate[Current(@)].fails = "uploadToGitHub"
                   THEN [@ EXCEPT !.stage = "markComplete"]
                   ELSE [@ EXCEPT !.stage = "markComplete",
                                  !.podcastUrl = PublicUrl(Current(runs[r]))]]
    /\ UNCHANGED <<processing, status, link, fate>>
    /\ UNCHANGED <<parserVars, cleanVars, expandVars, callVars, podcastVars>>

\* markComplete settles (lines 174-187): processArticle returns its result
AwaitMarkComplete(r) ==
    /\ runs[r].pc = "pipeline" /\ runs[r].stage = "markComplete"
    /\ IF fate[Current(runs[r])].fails = "markComplete"
       THEN /\ runs' = [runs EXCEPT ![r] = Caught(@, "markComplete")]
            /\ UNCHANGED <<status, link>>
       ELSE /\ runs' = [runs EXCEPT ![r].stage = "returned"]
            /\ status' = [status EXCEPT ![Current(runs[r])] = "Complete"]
            /\ link' = [link EXCEPT ![Current(runs[r])] = runs[r].podcastUrl]
    /\ UNCHANGED <<processing, fate>>
    /\ UNCHANGED <<parserVars, cleanVars, expandVars, callVars, podcastVars>>

\* markError settles (lines 191-192): processArticle returns the failure,
\* or rejects when markError throws
AwaitMarkError(r) ==
    /\ runs[r].pc = "pipeline" /\ runs[r].stage = "markError"
    /\ IF fate[Current(runs[r])].markErrorFails
       THEN /\ runs' = [runs EXCEPT ![r].stage = "thrown"]
            /\ status' = status
       ELSE /\ runs' = [runs EXCEPT ![r].stage = "returned"]
            /\ status' = [status EXCEPT ![Current(runs[r])] = "Error"]
    /\ UNCHANGED <<processing, link, fate>>
    /\ UNCHANGED <<parserVars, cleanVars, expandVars, callVars, podcastVars>>

\* the result processArticle returned (lines 182-187 and 192)
Result(run) ==
    IF run.err = ""
    THEN [success |-> TRUE, url |-> run.podcastUrl, error |-> ""]
    ELSE [success |-> FALSE, url |-> "", error |-> run.err]

\* lines 119-122 with the delete after the push, not in a finally
ReleasedOnReturn(run, busy) ==
    IF run.stage = "returned" THEN busy \ {Current(run)} ELSE busy

\* line 121: the finally block deletes the id, processArticle returned or not
Released(run, busy) == busy \ {Current(run)}

\* processNewArticles goes on after processArticle (lines 118-125): the result
\* is pushed, the id deleted, and the loop goes to its next article; when
\* processArticle rejected, the id is deleted and processNewArticles rejects
Release(r) ==
    /\ runs[r].pc = "pipeline" /\ runs[r].stage \in {"returned", "thrown"}
    /\ IF runs[r].stage = "thrown"
       THEN /\ runs' = [runs EXCEPT ![r].pc = "rejected"]
            /\ processing' = Released(runs[r], processing)
       ELSE /\ runs' = [runs EXCEPT ![r] =
                           Enter([@ EXCEPT !.results = Append(@, Result(runs[r]))],
                                 runs[r].index + 1, Released(runs[r], processing))]
            /\ processing' = Added(runs[r], runs[r].index + 1,
                                   Released(runs[r], processing))
    /\ UNCHANGED <<status, link, fate>>
    /\ UNCHANGED <<parserVars, cleanVars, expandVars, callVars, podcastVars>>

\* two calls of processNewArticles on a database of new articles
InitServer ==
    /\ processing = {} /\ runs = [r \in Runs |-> NoRun]
    /\ status = [a \in Articles |-> "New"] /\ link = [a \in Articles |-> ""]
    /\ fate \in [Articles -> Fates]
    /\ NoTranscript /\ NoText /\ NoExpansion /\ NoCall /\ NoAudio
NextServer ==
    \E r \in Runs :
        \/ GetNewArticles(r)
        \/ StartLoop(r)
        \/ AwaitUpdateStatus(r)
        \/ AwaitFetchArticle(r)
        \/ AwaitGenerateScript(r)
        \/ AwaitGeneratePodcast(r)
        \/ AwaitUpload(r)
        \/ AwaitMarkComplete(r)
        \/ AwaitMarkError(r)
        \/ Release(r)
SpecServer == InitServer /\ [][NextServer]_vars

(***************************************************************************)
(* generatePodcast and mergeAudio (src/lib/tts.js, both versions)          *)
(***************************************************************************)
MaxSegments == 3

\* replies whose segments differ in speaker and text, and a line whose
\* segment is too short to be kept
PodcastLines ==
    {"[HOST]: welcome to the show",
     "[EXPERT]: thanks for having me",
     "[HOST]: and why is that so",
     "[EXPERT]: okay"}

PodcastTranscripts == UNION {[1..n -> PodcastLines] : n \in 0..MaxSegments}

Scripts == {parseScript(t) : t \in PodcastTranscripts}

\* the two versions of tts.js
Variants == {"edge-tts", "kokoro"}

\* the jingles generateIntroMusic and generateOutroMusic can return
Jingles == {"intro", "outro"}

\* the merge methods of mergeAudio: the first that works, "none" when the
\* last one throws
Mergers == {"ffmpeg", "sox", "concat", "none"}

\* the machine generatePodcast runs on: the version of tts.js, the jingles
\* whose generation succeeds, the merge method that works, and the number of
\* the segment whose synthesis throws (0: none)
Studios ==
    {[variant |-> "edge-tts", music |-> {}, merger |-> m, failing |-> f] :
         m \in Mergers \ {"sox"}, f \in 0..MaxSegments}
    \cup {[variant |-> "kokoro", music |-> j, merger |-> m, failing |-> f] :
              j \in SUBSET Jingles, m \in Mergers, f \in 0..MaxSegments}

\* String(s).padStart(n, c)
RECURSIVE PadStart(_, _, _)
PadStart(s, n, c) == IF Len(s) >= n THEN s ELSE PadStart(c \o s, n, c)

\* config.audio.introOutroEnabled (config.js line 29)
introOutroEnabled == TRUE

\* the width of the segment number: lines 143 and 419
Width(variant) == IF variant = "edge-tts" THEN 3 ELSE 2

TempDir(a) == "output/temp_" \o a \o "/"

\* a segment file named after its speaker only
SpeakerPath(variant, a, i, speaker) == TempDir(a) \o speaker \o ".mp3"

\* lines 143 and 419: the file of segment i (counted from 0)
SegmentPath(variant, a, i, speaker) ==
    TempDir(a) \o PadStart(Decimal(i + 1), Width(variant), "0") \o "_" \o speaker \o ".mp3"

\* lines 411 and 430
IntroPath(a) == TempDir(a) \o "00_intro.mp3"
OutroPath(a) == TempDir(a) \o "99_outro.mp3"

\* what a file plays: the speech of a segment, or a jingle
Speech(segment) == [speaker |-> segment.speaker, text |-> segment.text]
Jingle(name) == [speaker |-> "music", text |-> name]

\* the file system: writing a file, and the audio of a file
WriteFile(fs, path, clip) == {f \in fs : f.path # path} \cup {[path |-> path, clip |-> clip]}
existsSync(fs, path) == \E f \in fs : f.path = path
readFileSync(fs, path) == (CHOOSE f \in fs : f.path = path).clip

\* the article whose podcast is generated
Episode == "page-1"

\* where generatePodcast goes after segment number i of n: the loop of lines
\* 141-151 and 417-426, then the outro (line 429) or the merge
AfterSegment(variant, i, n) ==
    IF i < n THEN "segments"
    ELSE IF variant = "kokoro" /\ introOutroEnabled THEN "outro"
    ELSE "merge"

\* lines 123-139 and 395-414: the directories, then the intro or the loop
GeneratePodcast ==
    /\ podcast.pc = "start"
    /\ podcast' = [podcast EXCEPT !.pc =
                      IF studio.variant = "kokoro" /\ introOutroEnabled THEN "intro"
                      ELSE AfterSegment(studio.variant, 0, Len(script.segments))]
    /\ UNCHANGED <<studio, segmentPaths, files>>
    /\ UNCHANGED <<parserVars, cleanVars, expandVars, callVars, serverVars>>

\* lines 410-414: generateIntroMusic returns the path or null
GenerateIntroMusic ==
    /\ podcast.pc = "intro"
    /\ IF "intro" \in studio.music
       THEN /\ files' = WriteFile(files, IntroPath(Episode), Jingle("intro"))
            /\ segmentPaths' = Append(segmentPaths, IntroPath(Episode))
       ELSE UNCHANGED <<files, segmentPaths>>
    /\ podcast' = [podcast EXCEPT !.pc =
                      AfterSegment(studio.variant, 0, Len(script.segments))]
    /\ UNCHANGED studio
    /\ UNCHANGED <<parserVars, cleanVars, expandVars, callVars, serverVars>>

\* lines 141-151 and 417-426: one turn of the loop; generateSegmentAudio
\* throws or leaves the file
GenerateSegmentAudio ==
    /\ podcast.pc = "segments"
    /\ IF studio.failing = podcast.i + 1
       THEN /\ podcast' = [podcast EXCEPT !.pc = "failed", !.error = "TTS failed"]
            /\ UNCHANGED <<files, segmentPaths>>
       ELSE /\ files' = WriteFile(files,
                            SegmentPath(studio.variant, Episode, podcast.i,
                                        script.segments[podcast.i + 1].speaker),
                            Speech(script.segments[podcast.i + 1]))
            /\ segmentPaths' = Append(segmentPaths,
                                   SegmentPath(studio.variant, Episode, podcast.i,
                                               script.segments[podcast.i + 1].speaker))
            /\ podcast' = [podcast EXCEPT
                              !.i = @ + 1,
                              !.pc = AfterSegment(studio.variant, podcast.i + 1,
                                                  Len(script.segments))]
    /\ UNCHANGED studio
    /\ UNCHANGED <<parserVars, cleanVars, expandVars, callVars, serverVars>>

\* lines 429-433: generateOutroMusic returns the path or null
GenerateOutroMusic ==
    /\ podcast.pc = "outro"
    /\ IF "outro" \in studio.music
       THEN /\ files' = WriteFile(files, OutroPath(Episode), Jingle("outro"))
            /\ segmentPaths' = Append(segmentPaths, OutroPath(Episode))
       ELSE UNCHANGED <<files, segmentPaths>>
    /\ podcast' = [podcast EXCEPT !.pc = "merge"]
    /\ UNCHANGED studio
    /\ UNCHANGED <<parserVars, cleanVars, expandVars, callVars, serverVars>>

\* lines 84 and 326: the paths that are merged
ValidPaths(variant, fs, paths) ==
    IF variant = "edge-tts"
    THEN SelectSeq(paths, LAMBDA p : existsSync(fs, p))
    ELSE paths

\* the files of the paths, one after the other: lines 95-115 and 338-386
Concatenated(fs, paths) == [k \in 1..Len(paths) |-> readFileSync(fs, paths[k])]

\* the files that are left when the paths are unlinked (lines 159-161)
Unlinked(fs, paths) == {f \in fs : \A k \in 1..Len(paths) : paths[k] # f.path}

\* mergeAudio (lines 80-118 and 322-390), then the cleanup and the return of
\* generatePodcast
MergeAudio ==
    /\ podcast.pc = "merge"
    /\ IF Len(ValidPaths(studio.variant, files, segmentPaths)) = 0
       THEN /\ podcast' = [podcast EXCEPT !.pc = "failed",
                                          !.error = "No audio segments to merge"]
            /\ files' = files
       ELSE IF Len(ValidPaths(studio.variant, files, segmentPaths)) > 1
               /\ studio.merger = "none"
       THEN /\ podcast' = [podcast EXCEPT !.pc = "failed",
                                          !.error = "Failed to merge audio files"]
            /\ files' = files
       ELSE /\ podcast' = [podcast EXCEPT
                              !.pc = "done",
                              !.audio = Concatenated(files,
                                            ValidPaths(studio.variant, files, segmentPaths))]
            /\ files' = Unlinked(files, segmentPaths)
    /\ UNCHANGED <<studio, segmentPaths>>
    /\ UNCHANGED <<parserVars, cleanVars, expandVars, callVars, serverVars>>

\* processArticle after generatePodcast (server.js lines 162-193): the
\* article is marked Complete with its link, or Error
AfterPodcast ==
    /\ podcast.pc \in {"done", "failed"}
    /\ status[Episode] = "Processing"
    /\ IF podcast.pc = "done"
       THEN /\ status' = [status EXCEPT ![Episode] = "Complete"]
            /\ link' = [link EXCEPT ![Episode] = PublicUrl(Episode)]
       ELSE /\ status' = [status EXCEPT ![Episode] = "Error"]
            /\ link' = link
    /\ UNCHANGED <<processing, fate, runs>>
    /\ UNCHANGED <<parserVars, cleanVars, expandVars, callVars, podcastVars>>

\* generatePodcast is called with a script parseScript returned, for an
\* article that processArticle has set to Processing
InitPodcast ==
    /\ transcript \in PodcastTranscripts
    /\ script = parseScript(transcript)
    /\ pc = "done"
    /\ NoText /\ NoExpansion /\ NoCall
    /\ processing = {} /\ runs = [r \in Runs |-> NoRun]
    /\ status = [a \in Articles |-> IF a = Episode THEN "Processing" ELSE "New"]
    /\ link = [a \in Articles |-> ""]
    /\ fate = [a \in Articles |-> [fails |-> "none", markErrorFails |-> FALSE]]
    /\ studio \in Studios
    /\ segmentPaths = <<>> /\ files = {}
    /\ podcast = [NoPodcast EXCEPT !.pc = "start"]

NextPodcast ==
    \/ GeneratePodcast
    \/ GenerateIntroMusic
    \/ GenerateSegmentAudio
    \/ GenerateOutroMusic
    \/ MergeAudio
    \/ AfterPodcast

SpecPodcast == InitPodcast /\ [][NextPodcast]_vars

(***************************************************************************)
(* Properties of parseScript and cleanText                                 *)
(***************************************************************************)
Parsed == pc = "done"
Segments == script.segments
Texts == {Segments[k].text : k \in 1..Len(Segments)}

\* C1: every segment parseScript emits has a text that is not empty
C1_NonEmptyText == Parsed => \A k \in 1..Len(Segments) : Segments[k].text # ""

\* s[i..j] is a "[", then text, then a "]"
BracketsAround(s, i, j) == Ch(s, i) = "[" /\ Ch(s, j) = "]" /\ i + 1 < j

\* s[i..j] is a "[", then text without a "]", then a "]"
BracketedAt(s, i, j) ==
    BracketsAround(s, i, j) /\ \A k \in (i + 1)..(j - 1) : Ch(s, k) # "]"

NoSymbols(s) == \A k \in 1..Len(s) : Ch(s, k) \notin {"&", "$", "%"}

SpeakersKnown == \A k \in 1..Len(Segments) : Segments[k].speaker \in {"host", "expert"}

\* C2 as stated: every segment's speaker is host or expert, and its text holds
\* no "&", "$" or "%" and no "[" that a "]" follows with text between the two
C2_NoBracketsAround ==
    Parsed =>
        /\ SpeakersKnown
        /\ \A t \in Texts :
              /\ NoSymbols(t)
              /\ \A i \in 1..Len(t), j \in 1..Len(t) : ~BracketsAround(t, i, j)

\* C2, amended: every segment's speaker is host or expert, and its text holds
\* no "&", "$" or "%" and no "[" followed by one or more characters other
\* than "]" and then a "]"
C2_NoBracketed ==
    Parsed =>
        /\ SpeakersKnown
        /\ \A t \in Texts :
              /\ NoSymbols(t)
              /\ \A i \in 1..Len(t), j \in 1..Len(t) : ~BracketedAt(t, i, j)

\* a reply with stage directions in brackets and with symbols has been parsed
C2_Witness ==
    /\ Parsed
    /\ transcript = <<"[HOST]: [laughs] [pause]", "HOST: Andrew: cats & dogs cost $5",
                      "Ava: []x] is 100% true">>
    /\ Len(Segments) = 3
    /\ Segments[2] = [speaker |-> "host", text |-> "cats  and  dogs cost  dollars 5"]
    /\ Segments[3] = [speaker |-> "expert", text |-> "[]x] is 100 percent  true"]

\* C3: cleanText is idempotent: cleaning a cleaned text changes nothing
C3_Idempotent == [][passes = 1 => cleaned' = cleaned]_vars

\* C4: no two adjacent segments have the same speaker
C4_Alternating ==
    Parsed => \A k \in 1..(Len(Segments) - 1) : Segments[k].speaker # Segments[k + 1].speaker

\* the tag lines of ReplyLines and of ShortReply that carry an inline text: the speaker the tag
\* names and the text after the tag and the name
TagLines ==
    {[line |-> "[HOST]: A", speaker |-> "host", inline |-> "A"],
     [line |-> "[EXPERT]: B", speaker |-> "expert", inline |-> "B"],
     [line |-> "[HOST]: C", speaker |-> "host", inline |-> "C"],
     [line |-> "[HOST]: hello world", speaker |-> "host", inline |-> "hello world"],
     [line |-> "[EXPERT]: Thanks for having me", speaker |-> "expert",
      inline |-> "Thanks for having me"],
     [line |-> "[HOST]: [laughs] [pause]", speaker |-> "host", inline |-> "[laughs] [pause]"],
     [line |-> "HOST: Andrew: cats & dogs cost $5", speaker |-> "host",
      inline |-> "cats & dogs cost $5"],
     [line |-> "Ava: []x] is 100% true", speaker |-> "expert", inline |-> "[]x] is 100% true"],
     [line |-> "  [expert] Emily: back in 1999 (laughs warmly) okay ", speaker |-> "expert",
      inline |-> "back in 1999 (laughs warmly) okay"]}

TagLineOf(line) == CHOOSE r \in TagLines : r.line = line
IsTagLine(line) == \E r \in TagLines : r.line = line
AllTagLines == \A k \in 1..Len(transcript) : IsTagLine(transcript[k])
AllLongTagLines ==
    \A k \in 1..Len(transcript) :
        IsTagLine(transcript[k]) /\ Len(TagLineOf(transcript[k]).inline) > MinTextLength

\* C5 as stated: a reply made of tag lines with inline text gives one segment
\* per tag line, in the order of the lines, with the line's speaker and text;
\* "[HOST]: A", "[EXPERT]: B", "[HOST]: C" gives {host, "A"}, {expert, "B"},
\* {host, "C"}
C5_SegmentPerTagLine ==
    /\ Parsed /\ AllTagLines =>
          /\ Len(Segments) = Len(transcript)
          /\ \A k \in 1..Len(Segments) :
                Segments[k].speaker = TagLineOf(transcript[k]).speaker
    /\ Parsed /\ transcript = ShortReply =>
          Segments = <<[speaker |-> "host", text |-> "A"],
                       [speaker |-> "expert", text |-> "B"],
                       [speaker |-> "host", text |-> "C"]>>

\* C5, amended: a reply made of tag lines whose inline text is longer than
\* ten characters gives one segment per tag line, in the order of the lines,
\* with the line's speaker and the line's inline text as cleanText leaves it
C5_SegmentPerLongTagLine ==
    Parsed /\ AllLongTagLines =>
        /\ Len(Segments) = Len(transcript)
        /\ \A k \in 1..Len(Segments) :
              Segments[k] = [speaker |-> TagLineOf(transcript[k]).speaker,
                             text    |-> cleanText(TagLineOf(transcript[k]).inline)]

\* three tag lines with long inline texts have given three segments in order
C5_Witness ==
    /\ Parsed
    /\ transcript = <<"[EXPERT]: Thanks for having me", "[HOST]: hello world",
                      "  [expert] Emily: back in 1999 (laughs warmly) okay ">>
    /\ Segments = <<[speaker |-> "expert", text |-> "Thanks for having me"],
                    [speaker |-> "host", text |-> "hello world"],
                    [speaker |-> "expert", text |-> "back in nineteen ninety-nine okay"]>>

\* the number of tokens of s that white space delimits
TokenCount(s) ==
    Cardinality({i \in 1..Len(s) : ~IsSpace(Ch(s, i)) /\ (i = 1 \/ IsSpace(Ch(s, i - 1)))})

RECURSIVE TokenSum(_, _)
TokenSum(segs, n) == IF n = 0 THEN 0 ELSE TokenSum(segs, n - 1) + TokenCount(segs[n].text)

\* C6: totalWords is the sum over the segments of the number of tokens of the
\* segment's text that white space delimits
C6_TotalWordsIsTokenSum == Parsed => script.totalWords = TokenSum(Segments, Len(Segments))

\* C7: estimatedMinutes is totalWords / wordsPerMinute rounded to the nearest
\* integer, a half rounding up, with wordsPerMinute = 150; 1500 words give 10
C7_EstimatedMinutes ==
    Parsed =>
        /\ wordsPerMinute = 150
        /\ 2 * 150 * script.estimatedMinutes - 150 <= 2 * script.totalWords
        /\ 2 * script.totalWords < 2 * 150 * script.estimatedMinutes + 150
        /\ script.totalWords = 1500 => script.estimatedMinutes = 10

\* a reply of 1500 words has been parsed: ten minutes
C7_Witness == Parsed /\ script.totalWords = 1500 /\ script.estimatedMinutes = 10

\* a reply of 75 words, half a minute, has been parsed: one minute
C7_WitnessHalf == Parsed /\ script.totalWords = 75 /\ script.estimatedMinutes = 1

\* the numbers of lo..hi in four digits
YearTokens(lo, hi) == {FourDigits(y) : y \in lo..hi}
Cleaned == passes >= 1

\* C8: a text with the year 2024 is cleaned to a text with "twenty
\* twenty-four"; a year of 2020..2029 keeps its tens part when spoken
C8_TwentyTwentyFour ==
    /\ Cleaned /\ token = "2024" => Contains(cleaned, "twenty twenty-four")
    /\ Cleaned /\ token \in YearTokens(2020, 2029) => Contains(cleaned, "twenty twenty")

\* the words of the year algorithm
UnitsWord == <<"one", "two", "three", "four", "five", "six", "seven", "eight", "nine">>
TeenWord ==
    <<"ten", "eleven", "twelve", "thirteen", "fourteen", "fifteen", "sixteen",
      "seventeen", "eighteen", "nineteen">>
TensWord == <<"twenty", "thirty", "forty", "fifty", "sixty", "seventy", "eighty", "ninety">>

\* the remainder r of a year of 1400..1999 as spoken
SpokenRemainder(r) ==
    IF r = 0 THEN "hundred"
    ELSE IF r <= 9 THEN "oh " \o UnitsWord[r]
    ELSE IF r <= 19 THEN TeenWord[r - 9]
    ELSE TensWord[(r \div 10) - 1] \o (IF r % 10 = 0 THEN "" ELSE "-" \o UnitsWord[r % 10])

\* the year y of 1400..2029 as spoken
SpokenYear(y) ==
    IF y = 2000 THEN "two thousand"
    ELSE IF y <= 1999 THEN TeenWord[(y \div 100) - 9] \o " " \o SpokenRemainder(y % 100)
    ELSE IF y <= 2009 THEN "two thousand " \o UnitsWord[y - 2000]
    ELSE IF y <= 2019 THEN "twenty " \o TeenWord[y - 2009]
    ELSE IF y % 10 = 0 THEN "twenty"
    ELSE "twenty " \o UnitsWord[y % 10]

SpokenForm ==
    [t \in YearTokens(1400, 2029) |-> SpokenYear(CHOOSE y \in 1400..2029 : FourDigits(y) = t)]

C10_OtherNumbersKept == Cleaned /\ token \notin DOMAIN SpokenForm => cleaned = text

\* "In 3000 it happened" has been cleaned
C10_Witness ==
    /\ passes = 1
    /\ token = "3000"
    /\ text = "In 3000 it happened"
    /\ cleaned = "In 3000 it happened"

\* the segments as the loop of parseScript leaves them, before the filter
Flushed == RawSegments(transcript)
FlushedLong == SelectSeq(Flushed, LAMBDA seg : Len(seg.text) >= 10)

\* C11: a flushed segment whose joined raw text is shorter than 10
\* characters is not in the script: every segment of the script is a flushed
\* segment of 10 characters or more, cleaned; the 5 characters of "hello" are
\* dropped
C11_ShortSegmentsDropped ==
    /\ Parsed =>
          /\ Len(Segments) <= Len(FlushedLong)
          /\ \A k \in 1..Len(Segments) :
                \E j \in 1..Len(FlushedLong) :
                    Segments[k] = [speaker |-> FlushedLong[j].speaker,
                                   text    |-> cleanText(FlushedLong[j].text)]
    /\ Parsed /\ transcript = <<"[HOST]: hello", "[EXPERT]: eleven char">> =>
          Segments = <<[speaker |-> "expert", text |-> "eleven char"]>>

\* a reply with segments of 8 and of 11 characters has been parsed: the long
\* one is all of the script
C11_Witness ==
    /\ Parsed
    /\ transcript = <<"[HOST]: hello", "so", "[EXPERT]: eleven char">>
    /\ Flushed = <<[speaker |-> "host", text |-> "hello so"],
                   [speaker |-> "expert", text |-> "eleven char"]>>
    /\ Segments = <<[speaker |-> "expert", text |-> "eleven char"]>>

Untagged == \A k \in 1..Len(transcript) : transcript[k] \in UntaggedLines
EmptyScript == [segments |-> <<>>, totalWords |-> 0, estimatedMinutes |-> 0]

\* C12: a reply without a speaker-tag line gives the script without
\* segments, of 0 words and 0 minutes, whatever its lines are
C12_UntaggedGivesEmptyScript == Parsed /\ Untagged => script = EmptyScript

\* a reply of three lines without a tag has been parsed
C12_Witness ==
    /\ Parsed
    /\ transcript = <<"Emily: hi there everyone", "and one more thing",
                      "EXPERT - thanks for having me">>
    /\ script = EmptyScript

NoParenthesis(s) == \A k \in 1..Len(s) : Ch(s, k) \notin {"(", ")", "[", "]"}

\* C13: a parenthetical whose content is a verb of the stage directions,
\* alone or with an adverb, is removed by cleanText; the host's segment of
\* "[HOST]: Hi there (laughs warmly) welcome" has no "laughs", no "warmly",
\* no bracket and no parenthesis
C13_StageDirectionRemoved ==
    /\ Cleaned /\ token \in StageDirections =>
          /\ cleaned = context.without
          /\ NoParenthesis(cleaned)
          /\ ~Contains(ToLower(cleaned), ToLower(token))
    /\ Parsed /\ Len(transcript) >= 1
          /\ transcript[1] = "[HOST]: Hi there (laughs warmly) welcome" =>
          /\ Len(Segments) >= 1
          /\ Segments[1].speaker = "host"
          /\ ~Contains(Segments[1].text, "laughs")
          /\ ~Contains(Segments[1].text, "warmly")
          /\ NoParenthesis(Segments[1].text)

\* "[HOST]: Hi there (laughs warmly) welcome" has been parsed, and "Hi there
\* (Laughs softly) welcome" can be cleaned
C13_Witness ==
    \/ /\ Parsed
       /\ transcript = <<"[HOST]: Hi there (laughs warmly) welcome">>
       /\ Segments = <<[speaker |-> "host", text |-> "Hi there welcome"]>>
    \/ /\ passes = 1
       /\ text = "Hi there (Laughs softly) welcome"
       /\ cleaned = "Hi there welcome"

\* C14: a parenthetical whose content is no stage direction is in the
\* cleaned text as it was
C14_RealContentKept ==
    Cleaned /\ token \in RealContents => Contains(cleaned, "(" \o token \o ")")

(***************************************************************************)
(* Properties of expandContent                                             *)
(***************************************************************************)
Returned == expansion # NoDocument
CallThrew == reply.kind \in {"fails", "unparsable", "null"}
CallSucceeded == reply.kind = "object"

\* C15 as stated: when the generation call throws, the Document returned is
\* the input, field for field, with nothing added
C15_FailureReturnsInput == Returned /\ CallThrew => expansion = article

\* C15: when the generation call throws, expandContent returns (it throws
\* nothing) a Document with every field of the input at the input's value,
\* and one more field, expanded, which is false
C15_FailureKeepsFields ==
    Returned /\ CallThrew =>
        /\ DOMAIN expansion = DOMAIN article \cup {"expanded"}
        /\ \A f \in DOMAIN article : expansion[f] = article[f]
        /\ expansion.expanded = FALSE

\* the command failed on the Document "Cats" and expandContent has returned
C15_Witness ==
    /\ Returned /\ reply.kind = "fails" /\ article.title = "Cats"
    /\ expansion = [title |-> "Cats", content |-> "Cats sleep a lot.",
                    wordCount |-> 4, expanded |-> FALSE]

\* C16: on success the returned content is the original content, the
\* "Additional Research" delimiter and the supplement, and the returned
\* wordCount is the number of tokens of the returned content
C16_WordCountOfContent ==
    Returned /\ CallSucceeded =>
        /\ expansion.content = article.content \o Delimiter \o Supplementary(reply.fields)
        /\ expansion.wordCount = countWords(expansion.content)

HasNoTextField == DOMAIN reply.fields \cap TextFields = {}

\* C17: a reply that parses and has none of the fields output, result and
\* content counts as a failure: the content and the wordCount returned are
\* those of the input, without an "Additional Research" section
C17_NoTextFieldIsFailure ==
    Returned /\ CallSucceeded /\ HasNoTextField =>
        /\ expansion.content = article.content
        /\ expansion.wordCount = article.wordCount
        /\ ~Contains(expansion.content, "Additional Research")

(***************************************************************************)
(* Properties of generateScript                                            *)
(***************************************************************************)
KeyUnset == apiKey = ""
Called == call # "idle"
Failed == call = "failed"
ReturnedScript == call = "received" /\ pc = "done"

\* C18: without OPENROUTER_API_KEY generateScript fails with the error
\* "OPENROUTER_API_KEY not set", no request is ever sent to the service, the
\* parser is not run and no Script is returned
C18_NoKeyNoRequest ==
    KeyUnset =>
        /\ requests = 0 /\ response = NoResponse
        /\ pc = "waiting" /\ script = NoScript
        /\ Called => Failed /\ error = "OPENROUTER_API_KEY not set"

C18_Witness ==
    KeyUnset /\ Failed /\ error = "OPENROUTER_API_KEY not set" /\ requests = 0

Answered == response # NoResponse
NoTextContent == response.kind # "content" \/ response.content = <<"">>

\* C19: when the call of the service errors (no response, a status that is
\* not OK) or the reply has no text content, the parser is not run, no Script
\* is returned, and generateScript, once it has gone on with the response,
\* has failed with an error
C19_UpstreamErrorPropagates ==
    Answered /\ NoTextContent =>
        /\ pc = "waiting" /\ script = NoScript
        /\ call \in {"awaiting", "failed"}
        /\ Failed => error # ""
        /\ ~Failed => error = ""

\* a status that is not OK, an empty choices array and an empty content have
\* each made generateScript fail
C19_Witness ==
    /\ Failed /\ Answered /\ script = NoScript
    /\ \/ response.kind = "not ok" /\ error = "OpenRouter API error"
       \/ response.kind = "no choice" /\ error = "OpenRouter returned empty content"
       \/ response.content = <<"">> /\ error = "OpenRouter returned empty content"

\* C20: generateScript comes to an end, with a Script or with an error, also
\* when the service never answers
C20_Terminates == <>(Failed \/ ReturnedScript)

(***************************************************************************)
(* Properties of processNewArticles and processArticle                     *)
(***************************************************************************)
InFlight(r, a) == runs[r].pc = "pipeline" /\ Current(runs[r]) = a
Listed(r, a) == \E k \in 1..Len(runs[r].articles) : runs[r].articles[k] = a

\* C21: two runs of processNewArticles never have a pipeline in flight for
\* the same article at the same time, and the processing set holds the
\* articles in flight, no more and no less
C21_OnePipelinePerArticle ==
    /\ \A a \in Articles : \A r1, r2 \in Runs :
          InFlight(r1, a) /\ InFlight(r2, a) => r1 = r2
    /\ processing = {a \in Articles : \E r \in Runs : InFlight(r, a)}

\* both runs listed both articles; the webhook run processes page-1, the
\* other run has skipped page-1 and processes page-2
C21_Witness ==
    /\ \A r \in Runs : runs[r].articles = <<"page-1", "page-2">>
    /\ InFlight("webhook", "page-1") /\ InFlight("process", "page-2")
    /\ runs["process"].results = <<>>
    /\ processing = {"page-1", "page-2"}

Running(r) == runs[r].pc \in {"listed", "pipeline"}
Ended(r) == runs[r].pc \in {"done", "rejected"}

\* C22: an id in the processing set is the id of an article whose pipeline
\* is in flight: it is released when processArticle returns, a success or a
\* failure, and when processArticle rejects; with no run in flight the set
\* is empty
C22_ReleasedWhenFinished ==
    /\ \A a \in processing : \E r \in Runs : InFlight(r, a)
    /\ \A r \in Runs : Ended(r) => \A a \in processing : \E q \in Runs \ {r} : InFlight(q, a)
    /\ (\A r \in Runs : ~Running(r)) => processing = {}

\* the webhook run ended because processArticle rejected on page-1 (markError
\* threw), the other run returned the result of page-2, and the set is empty
C22_Witness ==
    /\ runs["webhook"].pc = "rejected" /\ runs["webhook"].articles # <<>>
    /\ runs["process"].pc = "done" /\ Len(runs["process"].results) = 1
    /\ processing = {}

Alone(r) == \A q \in Runs \ {r} : runs[q].pc = "idle"
Succeeds(a) == fate[a].fails \in {"none", "uploadToGitHub"}

\* C23: a run that has the batch for itself ends with one result for every
\* article it listed, whatever call failed for the articles before, and the
\* result of an article is a success exactly when none of its own calls
\* (the upload aside) fails
C23_BatchGoesOn ==
    \A r \in Runs :
        Ended(r) /\ Alone(r) =>
            /\ Len(runs[r].results) = Len(runs[r].articles)
            /\ \A k \in 1..Len(runs[r].results) :
                  runs[r].results[k].success = Succeeds(runs[r].articles[k])

Finished(a) == status[a] \in {"Complete", "Error"}
Starting(r, a) == InFlight(r, a) /\ runs[r].stage = "updateStatus"

\* C27: no run starts a pipeline for an article whose pipeline another run
\* has finished (its status is Complete or Error)
C27_NotProcessedTwice == \A r \in Runs : \A a \in Articles : ~(Starting(r, a) /\ Finished(a))

\* C28: the status of an article only moves from New to Processing and from
\* Processing to Complete or Error (from New to Error when the update to
\* Processing itself failed)
C28_StatusMoves ==
    [][\A a \in Articles :
          \/ status'[a] = status[a]
          \/ status[a] = "New" /\ status'[a] = "Processing"
          \/ status[a] = "New" /\ status'[a] = "Error" /\ fate[a].fails = "updateStatus"
          \/ status[a] = "Processing" /\ status'[a] \in {"Complete", "Error"}]_vars

PipelineReturned(r) == runs[r].pc = "pipeline" /\ runs[r].stage = "returned"

\* C30: when the upload fails, processArticle returns a success, the article
\* is Complete and its podcast link is the local path; when fetchArticle,
\* generateScript or generatePodcast fails, processArticle returns a failure,
\* the article is in Error and has no podcast link
C30_OnlyUploadSwallowed ==
    \A r \in Runs : \A a \in Articles :
        PipelineReturned(r) /\ Current(runs[r]) = a =>
            /\ fate[a].fails = "uploadToGitHub" =>
                  /\ status[a] = "Complete" /\ link[a] = LocalPath(a)
                  /\ runs[r].err = "" /\ runs[r].podcastUrl = LocalPath(a)
            /\ fate[a].fails = "none" =>
                  /\ status[a] = "Complete" /\ link[a] = PublicUrl(a)
            /\ fate[a].fails \in {"fetchArticle", "generateScript", "generatePodcast"} =>
                  /\ status[a] = "Error" /\ link[a] = ""
                  /\ runs[r].err = fate[a].fails

\* the upload of page-1 failed and processArticle returned for it
C30_Witness ==
    /\ PipelineReturned("webhook") /\ Current(runs["webhook"]) = "page-1"
    /\ fate["page-1"].fails = "uploadToGitHub"
    /\ status["page-1"] = "Complete" /\ link["page-1"] = "output/page-1.mp3"

\* the speech of the segments of the script, in the order of the script
Spoken == [k \in 1..Len(script.segments) |-> Speech(script.segments[k])]

IsSpeech(clip) == clip.speaker # "music"

\* C24: the audio generatePodcast returns plays the segments of the script in
\* the order of the script, each one once and none left out; while the loop
\* runs, the paths pushed so far are those of the first segments in order
C24_PlaybackInScriptOrder ==
    /\ podcast.pc = "done" => SelectSeq(podcast.audio, IsSpeech) = Spoken
    /\ podcast.pc \in {"segments", "outro", "merge"} =>
           SelectSeq(Concatenated(files, segmentPaths), IsSpeech)
               = SubSeq(Spoken, 1, podcast.i)

\* a podcast of three segments, two of the same speaker, with both jingles
C24_Witness ==
    /\ podcast.pc = "done" /\ Len(script.segments) = 3
    /\ script.segments[1].speaker = script.segments[3].speaker
    /\ script.segments[1].text # script.segments[3].text
    /\ Len(podcast.audio) = 5

\* C29: when the script has no segment, generatePodcast fails with 'No audio
\* segments to merge' and the article is never Complete
C29_EmptyScriptFails ==
    Len(script.segments) = 0 =>
        /\ podcast.pc # "done"
        /\ podcast.pc = "failed" => podcast.error = "No audio segments to merge"
        /\ status[Episode] # "Complete"

\* a line that is one annotation in brackets and nothing else
IsSingleAnnotation(line) ==
    /\ IsBracketOnly(line)
    /\ \A k \in 2..(Len(line) - 1) : Ch(line, k) \notin {"[", "]"}

\* line k follows a tag line, is not blank and is not a tag line itself
IsContinuation(k) ==
    /\ transcript[k] \in DialogueOthers \ {""}
    /\ \E j \in 1..(k - 1) : transcript[j] \in DialogueTags

InSomeSegment(line) == \E s \in 1..Len(Flushed) : Contains(Flushed[s].text, line)

\* C25: a continuation line that is not a single bracket-only annotation is
\* in the text of a segment
C25_WordsOutsideBracketsKept ==
    pc = "done" =>
        \A k \in 1..Len(transcript) :
            IsContinuation(k) /\ ~IsSingleAnnotation(transcript[k]) =>
                InSomeSegment(transcript[k])

NamePrefixes == {"andrew:", "host:", "ava:", "aria:", "emily:", "expert:"}

StartsWithName(t) == WordsAt(ToLower(t), 1, NamePrefixes) # {}

\* C26: no segment of the script starts with a name and a colon, and no line
\* that starts with a name and a colon is in the text of a segment
C26_NoNameInSpeech ==
    pc = "done" =>
        /\ \A s \in 1..Len(Segments) : ~StartsWithName(Segments[s].text)
        /\ \A k \in 1..Len(transcript) :
               transcript[k] \in DialogueOthers /\ StartsWithName(transcript[k]) =>
                   ~InSomeSegment(transcript[k])

====
